---------------------------- MODULE Spec2Model ----------------------------
(* zlogger: a leveled logging facade over zerolog.                          *)
(* A *Logger is an index into `heap`; the value stored there is the         *)
(* zerolog.Logger it points to (writer, accumulated context bytes, hooks).  *)
EXTENDS Integers, Sequences, FiniteSets, TLC

VARIABLES
    heap,      \* heap[i]: the zerolog.Logger held by the i-th allocated *Logger
    gLevel,    \* zerolog's process-wide level, written by SetGlobalLevel
    stdout,    \* the lines written to os.Stdout by the most recent call
    exit,      \* whether the process has exited, and its exit status
    call,      \* the most recent call: its operation, arguments and result
    lookups,   \* the getValStr / getValInt results of the most recent call
    made       \* made[i]: the call that returned the i-th *Logger

vars == <<heap, gLevel, stdout, exit, call, lookups, made>>

-----------------------------------------------------------------------------
(* Bounds of the model *)

\* *Logger values allocated in one run of the whole program (Spec)
MaxLoggers == 2
\* *Logger values allocated along builder chains (SpecBuild, SpecCtx)
MaxChain == 3
\* constructor calls in a run of Initialization alone (SpecInit)
MaxInits == 1

-----------------------------------------------------------------------------
(* Program constants *)

defaultSkipFrameCount == 3
CallerSkipFrameCount == 2

LevelDebug == -4
LevelInfo == 0
LevelWarn == 4
LevelError == 8

DebugLevel == 0
InfoLevel == 1
WarnLevel == 2
ErrorLevel == 3
FatalLevel == 4

-----------------------------------------------------------------------------
(* Values stored in a context.Context: an `any` with its dynamic type *)

NilVal == [t |-> "nil", s |-> "", n |-> 0]
S(str) == [t |-> "string", s |-> str, n |-> 0]
I(num) == [t |-> "int", s |-> "", n |-> num]
B(str) == [t |-> "bytes", s |-> str, n |-> 0]

ReqKeys == <<"Method", "RequestURI", "ReqHeader", "ReqBody", "Time">>
RespKeys == <<"RespHeader", "RespBody", "StatusCode">>
TagKeys == <<"Tag", "DocumentId", "ReqId", "XReqId">>

Range(seq) == {seq[i] : i \in DOMAIN seq}

Keys == Range(ReqKeys) \cup Range(RespKeys) \cup Range(TagKeys)

Background == [k \in Keys |-> NilVal]

WithValue(c, key, val) == [c EXCEPT ![key] = val]

Value(c, key) == c[key]

-----------------------------------------------------------------------------
(* Field Extractor *)

\* getValStr without the `valStr != ""` test
getValStrAny(c, key) ==
    LET v == Value(c, key)
    IN  IF v.t = "string"
        THEN [s |-> v.s, n |-> 0, ok |-> TRUE]
        ELSE [s |-> "", n |-> 0, ok |-> FALSE]

getValStr(c, key) ==
    LET v == Value(c, key)
    IN  IF v.t = "string" /\ v.s # ""
        THEN [s |-> v.s, n |-> 0, ok |-> TRUE]
        ELSE [s |-> "", n |-> 0, ok |-> FALSE]

\* getValInt that takes the zero value for a failed assertion
getValIntNonZero(c, key) ==
    LET v == Value(c, key)
    IN  IF v.t = "int" /\ v.n # 0
        THEN [s |-> "", n |-> v.n, ok |-> TRUE]
        ELSE [s |-> "", n |-> 0, ok |-> FALSE]

getValInt(c, key) ==
    LET v == Value(c, key)
    IN  IF v.t = "int"
        THEN [s |-> "", n |-> v.n, ok |-> TRUE]
        ELSE [s |-> "", n |-> 0, ok |-> FALSE]

-----------------------------------------------------------------------------
(* zerolog.Context: fields appended to a private copy of the context bytes *)

StrField(key, val) == [k |-> key, t |-> "string", s |-> val, n |-> 0]
IntField(key, val) == [k |-> key, t |-> "int", s |-> "", n |-> val]

\* a builder that starts from an empty context instead of the receiver's
WithFresh(lg) == [lg EXCEPT !.context = <<>>]

\* Logger.With(): a Context over a copy of the receiver
With(lg) == lg

\* Context.Str / Context.Int: append one key/value, nothing is looked up
CtxStr(c, key, val) == [c EXCEPT !.context = Append(@, StrField(key, val))]
CtxInt(c, key, val) == [c EXCEPT !.context = Append(@, IntField(key, val))]

NilErr == [nil |-> TRUE, msg |-> ""]
NewError(m) == [nil |-> FALSE, msg |-> m]

\* Context.Err: a nil error attaches nothing
CtxErr(c, err) == IF err.nil THEN c ELSE CtxStr(c, "error", err.msg)

-----------------------------------------------------------------------------
(* Contextual Builder: each operation returns the zerolog.Logger of the new  *)
(* *Logger (lg) and the extractor results it obtained, in order (lk)         *)

Look(key, r) == [key |-> key, s |-> r.s, n |-> r.n, ok |-> r.ok]

Err(lg, err) == CtxErr(With(lg), err)

ApplyRequest(lg, ctx) ==
    LET r1 == getValStr(ctx, "Method")
        r2 == getValStr(ctx, "RequestURI")
        r3 == getValStr(ctx, "ReqHeader")
        r4 == getValStr(ctx, "ReqBody")
        r5 == getValStr(ctx, "Time")
        c0 == With(lg)
        c1 == IF r1.ok THEN CtxStr(c0, "method", r1.s) ELSE c0
        c2 == IF r2.ok THEN CtxStr(c1, "req_uri", r2.s) ELSE c1
        c3 == IF r3.ok THEN CtxStr(c2, "req_header", r3.s) ELSE c2
        c4 == IF r4.ok THEN CtxStr(c3, "req_body", r4.s) ELSE c3
        c5 == IF r5.ok THEN CtxStr(c4, "time", r5.s) ELSE c4
    IN  [lg |-> c5,
         lk |-> <<Look("Method", r1), Look("RequestURI", r2), Look("ReqHeader", r3),
                  Look("ReqBody", r4), Look("Time", r5)>>]

ApplyResponse(lg, ctx) ==
    LET r1 == getValStr(ctx, "RespHeader")
        r2 == getValStr(ctx, "RespBody")
        r3 == getValInt(ctx, "StatusCode")
        c0 == With(lg)
        c1 == IF r1.ok THEN CtxStr(c0, "resp_header", r1.s) ELSE c0
        c2 == IF r2.ok THEN CtxStr(c1, "resp_body", r2.s) ELSE c1
        c3 == IF r3.ok THEN CtxInt(c2, "status_code", r3.n) ELSE c2
    IN  [lg |-> c3,
         lk |-> <<Look("RespHeader", r1), Look("RespBody", r2), Look("StatusCode", r3)>>]

ApplyContext(lg, ctx) ==
    LET r1 == getValStr(ctx, "Tag")
        r2 == getValStr(ctx, "DocumentId")
        r3 == getValStr(ctx, "ReqId")
        r4 == getValStr(ctx, "XReqId")
        c0 == With(lg)
        c1 == IF r1.ok THEN CtxStr(c0, "tag", r1.s) ELSE c0
        c2 == IF r2.ok THEN CtxStr(c1, "document_id", r2.s) ELSE c1
        c3 == IF r3.ok THEN CtxStr(c2, "req_id", r3.s) ELSE c2
        c4 == IF r4.ok THEN CtxStr(c3, "x_req_id", r4.s) ELSE c3
    IN  [lg |-> c4,
         lk |-> <<Look("Tag", r1), Look("DocumentId", r2), Look("ReqId", r3),
                  Look("XReqId", r4)>>]

-----------------------------------------------------------------------------
(* Initialization *)

NilSkip == [nil |-> TRUE, v |-> 0]
SkipOf(v) == [nil |-> FALSE, v |-> v]

\* setupLogger with `<= 0` for `< 0`
setupLoggerZeroDefault(level, skipFrameCount) ==
    LET sfc == IF skipFrameCount.nil THEN defaultSkipFrameCount
               ELSE IF skipFrameCount.v <= 0 THEN defaultSkipFrameCount
               ELSE skipFrameCount.v
        l == CASE level = LevelError -> ErrorLevel
               [] level = LevelWarn -> WarnLevel
               [] level = LevelInfo -> InfoLevel
               [] level = LevelDebug -> DebugLevel
               [] OTHER -> InfoLevel
    IN  [sfc |-> sfc, l |-> l]

\* setupLogger without the default case: l keeps its zero value
setupLoggerNoDefault(level, skipFrameCount) ==
    LET sfc == IF skipFrameCount.nil THEN defaultSkipFrameCount
               ELSE IF skipFrameCount.v < 0 THEN defaultSkipFrameCount
               ELSE skipFrameCount.v
        l == CASE level = LevelError -> ErrorLevel
               [] level = LevelWarn -> WarnLevel
               [] level = LevelInfo -> InfoLevel
               [] OTHER -> DebugLevel
    IN  [sfc |-> sfc, l |-> l]

\* setupLogger: the resolved skip depth (sfc) and the level handed to
\* zerolog.SetGlobalLevel (l)
setupLogger(level, skipFrameCount) ==
    LET sfc == IF skipFrameCount.nil THEN defaultSkipFrameCount
               ELSE IF skipFrameCount.v < 0 THEN defaultSkipFrameCount
               ELSE skipFrameCount.v
        l == CASE level = LevelError -> ErrorLevel
               [] level = LevelWarn -> WarnLevel
               [] level = LevelInfo -> InfoLevel
               [] level = LevelDebug -> DebugLevel
               [] OTHER -> InfoLevel
    IN  [sfc |-> sfc, l |-> l]

\* zerolog.New(w).With().Timestamp().CallerWithSkipFrameCount(skip).Logger():
\* an empty context, the logger's own level at its zero value, both hooks
ZeroLogger(w, sfc) ==
    [w |-> w, level |-> DebugLevel, context |-> <<>>, skip |-> CallerSkipFrameCount + sfc]

-----------------------------------------------------------------------------
(* Emission: zerolog events and the two writers *)

LevelName(lvl) ==
    CASE lvl = DebugLevel -> "debug"
      [] lvl = InfoLevel -> "info"
      [] lvl = WarnLevel -> "warn"
      [] lvl = ErrorLevel -> "error"
      [] OTHER -> "fatal"

\* fmt.Sprintf over a format cut into literal pieces and verbs
Verb(v, a) ==
    CASE v = "%d" /\ a.t = "int" -> ToString(a.n)
      [] v = "%s" /\ a.t = "string" -> a.s
      [] v = "%d" -> "%!d(string=" \o a.s \o ")"
      [] OTHER -> "%!s(int=" \o ToString(a.n) \o ")"

RECURSIVE Sprintf(_, _)
Sprintf(format, args) ==
    IF format = <<>>
    THEN IF args = <<>> THEN "" ELSE "%!(EXTRA)"
    ELSE IF Head(format) \in {"%d", "%s"}
         THEN IF args = <<>>
              THEN "%!" \o Head(format) \o "(MISSING)" \o Sprintf(Tail(format), args)
              ELSE Verb(Head(format), Head(args)) \o Sprintf(Tail(format), Tail(args))
         ELSE Head(format) \o Sprintf(Tail(format), args)

\* a threshold kept per logger: the global level is not consulted
shouldOwnLevel(lg, lvl) == lvl >= lg.level

\* Logger.should: the logger's own level and the global level both gate
should(lg, lvl) == lvl >= lg.level /\ lvl >= gLevel

Now == "2026-01-01T00:00:00Z"
Frame(skip) == "frame" \o ToString(skip)

\* The JSON object of one event: level, the logger's context, the event's own
\* fields, the timestamp and caller hooks, then the message when not empty
EventFields(lg, lvl, own, msg) ==
    <<StrField("level", LevelName(lvl))>> \o lg.context \o own
        \o <<StrField("time", Now), StrField("caller", Frame(lg.skip))>>
        \o (IF msg = "" THEN <<>> ELSE <<StrField("message", msg)>>)

ToUpper(s) ==
    CASE s = "/x" -> "/X"
      [] s = "ok" -> "OK"
      [] s = "boom" -> "BOOM"
      [] s = "t0" -> "T0"
      [] s = "eof" -> "EOF"
      [] s = "| debug |" -> "| DEBUG |"
      [] s = "| info  |" -> "| INFO  |"
      [] s = "| warn  |" -> "| WARN  |"
      [] s = "| error |" -> "| ERROR |"
      [] s = "| fatal |" -> "| FATAL |"
      [] OTHER -> s

\* fmt.Sprintf("| %-6s|", i)
PadLevel(name) ==
    CASE name = "debug" -> "| debug |"
      [] name = "info" -> "| info  |"
      [] name = "warn" -> "| warn  |"
      [] name = "error" -> "| error |"
      [] OTHER -> "| fatal |"

FormatLevel(i) == ToUpper(PadLevel(i))
FormatMessage(i) == i
FormatFieldName(i) == i \o ":"
FormatFieldValue(f) == ToUpper(IF f.t = "int" THEN ToString(f.n) ELSE f.s)

\* the console writer decodes the JSON object into a map: the last
\* occurrence of a name is the one kept
Last(fields, name) ==
    LET idx == {i \in DOMAIN fields : fields[i].k = name}
    IN  fields[CHOOSE i \in idx : \A j \in idx : j <= i]

Has(fields, name) == \E i \in DOMAIN fields : fields[i].k = name

\* the remaining field names in the console writer's order: error first,
\* then sorted
ConsoleOrder ==
    <<"error", "document_id", "method", "req_body", "req_header", "req_id", "req_uri",
      "resp_body", "resp_header", "severity", "status_code", "tag", "x_req_id">>

RECURSIVE ConsoleRest(_, _)
ConsoleRest(fields, names) ==
    IF names = <<>> THEN <<>>
    ELSE (IF Has(fields, Head(names))
          THEN <<StrField(FormatFieldName(Head(names)),
                          FormatFieldValue(Last(fields, Head(names))))>>
          ELSE <<>>) \o ConsoleRest(fields, Tail(names))

ConsoleLine(fields) ==
    <<StrField("time", Last(fields, "time").s),
      StrField("level", FormatLevel(Last(fields, "level").s)),
      StrField("caller", Last(fields, "caller").s)>>
      \o (IF Has(fields, "message")
          THEN <<StrField("message", FormatMessage(Last(fields, "message").s))>>
          ELSE <<>>)
      \o ConsoleRest(fields, ConsoleOrder)

\* one line on os.Stdout
Write(lg, fields) ==
    [w |-> lg.w, fields |-> IF lg.w = "console" THEN ConsoleLine(fields) ELSE fields]

\* Event.Msgf on the event of newEvent: a disabled event is nil and writes nothing
Emit(lg, lvl, own, m) ==
    IF should(lg, lvl)
    THEN <<Write(lg, EventFields(lg, lvl, own, Sprintf(m.format, m.args)))>>
    ELSE <<>>

Debugf(lg, m) == Emit(lg, DebugLevel, <<>>, m)
Infof(lg, m) == Emit(lg, InfoLevel, <<>>, m)
Warnf(lg, m) == Emit(lg, WarnLevel, <<IntField("severity", 400)>>, m)
Errorf(lg, m) == Emit(lg, ErrorLevel, <<IntField("severity", 500)>>, m)
\* Fatalf written as a copy of Errorf
FatalfAsErrorf(lg, m) == Emit(lg, ErrorLevel, <<IntField("severity", 500)>>, m)

Fatalf(lg, m) == Emit(lg, FatalLevel, <<IntField("severity", 800)>>, m)

-----------------------------------------------------------------------------
(* Inputs *)

SlogLevels == {LevelDebug, LevelInfo, LevelWarn, LevelError, -8, 2, 12}
SkipInputs == {NilSkip, SkipOf(-2), SkipOf(-1), SkipOf(0), SkipOf(1), SkipOf(3), SkipOf(5)}
\* the inputs the whole-program specification draws from
SomeLevels == {LevelDebug, LevelInfo, LevelWarn, LevelError, 2}
SomeSkips == {SkipOf(1)}
SomeErrs == {NewError("eof")}
SomeMsgs == {[format |-> <<"code ", "%d">>, args |-> <<I(7)>>]}
Factories == {"json", "console"}
Errs == {NilErr, NewError("eof")}
Msgs == {[format |-> <<"boom">>, args |-> <<>>],
         [format |-> <<"code ", "%d">>, args |-> <<I(7)>>]}
NoMsg == [format |-> <<>>, args |-> <<>>]

CtxScenario ==
    WithValue(WithValue(WithValue(Background, "Method", S("GET")),
                        "RequestURI", S("/x")), "ReqHeader", S(""))
CtxResponse ==
    WithValue(WithValue(Background, "RespBody", S("ok")), "StatusCode", I(200))
CtxMixed ==
    WithValue(WithValue(WithValue(WithValue(Background, "Method", S("POST")),
                                  "Time", S("t0")), "StatusCode", I(0)), "Tag", S("T1"))
CtxMistyped ==
    WithValue(WithValue(WithValue(WithValue(Background, "Method", I(200)),
                                  "StatusCode", S("200")), "Tag", B("T1")), "ReqId", S("R1"))

Contexts == {Background, CtxScenario, CtxResponse, CtxMixed, CtxMistyped}
SomeContexts == {CtxScenario, CtxMixed}

CtxVals == {NilVal, S(""), S("GET"), S("/x"), I(0), I(200), B("GET")}

\* every key with every kind of value, on top of each context above
RichContexts == {WithValue(c, k, v) : c \in Contexts, k \in Keys, v \in CtxVals}

-----------------------------------------------------------------------------
(* The state machine *)

Running == [exited |-> FALSE, status |-> 0]

InitOps == {"New", "NewWithCustomLogger", "NewPrettyLogger"}
ApplyOps == {"ApplyRequest", "ApplyResponse", "ApplyContext"}
BuilderOps == ApplyOps \cup {"Err"}
EmitOps == {"Debugf", "Infof", "Warnf", "Errorf"}

NoCall ==
    [op |-> "none", l |-> 0, ret |-> 0, ctx |-> Background, err |-> NilErr,
     level |-> 0, skip |-> NilSkip, fn |-> "", sfc |-> 0, m |-> NoMsg]

\* what is remembered of the call that returned a *Logger
Origin(c) == [op |-> c.op, l |-> c.l, ctx |-> c.ctx, err |-> c.err]

\* the new zerolog.Logger stored through the receiver's pointer as well
AllocThroughParent(h, l, lg) ==
    Append(IF l \in DOMAIN h THEN [h EXCEPT ![l] = lg] ELSE h, lg)

\* return &Logger{logger: &lg}: a fresh *Logger, every other one untouched
Alloc(h, l, lg) == Append(h, lg)

\* zerolog.SetGlobalLevel
SetGlobalLevel(old, l) == l

Init ==
    /\ heap = <<>>
    /\ gLevel = DebugLevel
    /\ stdout = <<>>
    /\ exit = Running
    /\ call = NoCall
    /\ lookups = <<>>
    /\ made = <<>>

\* the three constructors: op names the entry point, fn the writer factory
Construct(op, level, skip, fn) ==
    LET r == setupLogger(level, skip)
    IN  /\ heap' = Alloc(heap, 0, ZeroLogger(fn, r.sfc))
        /\ gLevel' = SetGlobalLevel(gLevel, r.l)
        /\ stdout' = <<>>
        /\ lookups' = <<>>
        /\ call' = [NoCall EXCEPT !.op = op, !.ret = Len(heap) + 1, !.level = level,
                                   !.skip = skip, !.fn = fn, !.sfc = r.sfc]
        /\ made' = Append(made, Origin(call'))
        /\ UNCHANGED exit

CallNew(cap, L, K) ==
    \E level \in L, skip \in K :
        /\ ~exit.exited
        /\ Len(heap) < cap
        /\ Construct("New", level, skip, "json")

CallNewWithCustomLogger(cap, L, K) ==
    \E level \in L, skip \in K, fn \in Factories :
        /\ ~exit.exited
        /\ Len(heap) < cap
        /\ Construct("NewWithCustomLogger", level, skip, fn)

CallNewPrettyLogger(cap, L, K) ==
    \E level \in L, skip \in K :
        /\ ~exit.exited
        /\ Len(heap) < cap
        /\ Construct("NewPrettyLogger", level, skip, "console")

Built(op, l, ctx, err, r) ==
    /\ heap' = Alloc(heap, l, r.lg)
    /\ lookups' = r.lk
    /\ stdout' = <<>>
    /\ call' = [NoCall EXCEPT !.op = op, !.l = l, !.ret = Len(heap) + 1,
                               !.ctx = ctx, !.err = err]
    /\ made' = Append(made, Origin(call'))
    /\ UNCHANGED <<gLevel, exit>>

CallErr(cap, E) ==
    \E l \in DOMAIN heap, err \in E :
        /\ ~exit.exited
        /\ Len(heap) < cap
        /\ Built("Err", l, Background, err, [lg |-> Err(heap[l], err), lk |-> <<>>])

CallApplyRequest(cap, C) ==
    \E l \in DOMAIN heap, ctx \in C :
        /\ ~exit.exited
        /\ Len(heap) < cap
        /\ Built("ApplyRequest", l, ctx, NilErr, ApplyRequest(heap[l], ctx))

CallApplyResponse(cap, C) ==
    \E l \in DOMAIN heap, ctx \in C :
        /\ ~exit.exited
        /\ Len(heap) < cap
        /\ Built("ApplyResponse", l, ctx, NilErr, ApplyResponse(heap[l], ctx))

CallApplyContext(cap, C) ==
    \E l \in DOMAIN heap, ctx \in C :
        /\ ~exit.exited
        /\ Len(heap) < cap
        /\ Built("ApplyContext", l, ctx, NilErr, ApplyContext(heap[l], ctx))

\* severity attached to the logger's context instead of the event
AfterEmitPersist(h, l, op) ==
    CASE op = "Warnf" -> [h EXCEPT ![l].context = Append(@, IntField("severity", 400))]
      [] op = "Errorf" -> [h EXCEPT ![l].context = Append(@, IntField("severity", 500))]
      [] OTHER -> h

\* an event's own fields go to the event's buffer: the heap after an emission
\* through *Logger l is the heap before it
AfterEmit(h, l, op) == h

Emitted(op, l, m, lines) ==
    /\ stdout' = lines
    /\ lookups' = <<>>
    /\ call' = [NoCall EXCEPT !.op = op, !.l = l, !.m = m]
    /\ heap' = AfterEmit(heap, l, op)
    /\ UNCHANGED <<gLevel, made>>

CallDebugf(M) ==
    \E l \in DOMAIN heap, m \in M :
        ~exit.exited /\ Emitted("Debugf", l, m, Debugf(heap[l], m)) /\ UNCHANGED exit

CallInfof(M) ==
    \E l \in DOMAIN heap, m \in M :
        ~exit.exited /\ Emitted("Infof", l, m, Infof(heap[l], m)) /\ UNCHANGED exit

CallWarnf(M) ==
    \E l \in DOMAIN heap, m \in M :
        ~exit.exited /\ Emitted("Warnf", l, m, Warnf(heap[l], m)) /\ UNCHANGED exit

CallErrorf(M) ==
    \E l \in DOMAIN heap, m \in M :
        ~exit.exited /\ Emitted("Errorf", l, m, Errorf(heap[l], m)) /\ UNCHANGED exit

\* os.Exit(1), reached through the fatal event's done callback or line 208
Exit(status) == [exited |-> TRUE, status |-> status]

CallFatalf(M) ==
    \E l \in DOMAIN heap, m \in M :
        /\ ~exit.exited
        /\ Emitted("Fatalf", l, m, Fatalf(heap[l], m))
        /\ exit' = Exit(1)

Next ==
    \/ CallNew(MaxLoggers, SomeLevels, SomeSkips)
    \/ CallNewWithCustomLogger(MaxLoggers, SomeLevels, SomeSkips)
    \/ CallNewPrettyLogger(MaxLoggers, SomeLevels, SomeSkips)
    \/ CallErr(MaxLoggers, SomeErrs)
    \/ CallApplyRequest(MaxLoggers, SomeContexts)
    \/ CallApplyResponse(MaxLoggers, SomeContexts)
    \/ CallApplyContext(MaxLoggers, SomeContexts)
    \/ CallDebugf(SomeMsgs)
    \/ CallInfof(SomeMsgs)
    \/ CallWarnf(SomeMsgs)
    \/ CallErrorf(SomeMsgs)
    \/ CallFatalf(SomeMsgs)

Spec == Init /\ [][Next]_vars

\* Builder chains from one root logger, whatever constructor made it
InitBuild ==
    \E fn \in Factories :
        /\ heap = <<ZeroLogger(fn, setupLogger(LevelInfo, NilSkip).sfc)>>
        /\ gLevel = setupLogger(LevelInfo, NilSkip).l
        /\ stdout = <<>>
        /\ exit = Running
        /\ call = [NoCall EXCEPT !.op = "NewWithCustomLogger", !.ret = 1,
                                 !.level = LevelInfo, !.fn = fn,
                                 !.sfc = setupLogger(LevelInfo, NilSkip).sfc]
        /\ lookups = <<>>
        /\ made = <<Origin(call)>>

NextBuild ==
    \/ CallErr(MaxChain, Errs)
    \/ CallApplyRequest(MaxChain, Contexts)
    \/ CallApplyResponse(MaxChain, Contexts)
    \/ CallApplyContext(MaxChain, Contexts)

SpecBuild == InitBuild /\ [][NextBuild]_vars

\* One ambient context per run, of every shape, handed to each builder call
Ambient == IF call.op \in ApplyOps THEN {call.ctx} ELSE RichContexts

NextCtx ==
    \/ CallApplyRequest(MaxChain, Ambient)
    \/ CallApplyResponse(MaxChain, Ambient)
    \/ CallApplyContext(MaxChain, Ambient)

SpecCtx == InitBuild /\ [][NextCtx]_vars

\* Initialization alone, over every kind of level and skip-frame input
NextInit ==
    \/ CallNew(MaxInits, SlogLevels, SkipInputs)
    \/ CallNewWithCustomLogger(MaxInits, SlogLevels, SkipInputs)
    \/ CallNewPrettyLogger(MaxInits, SlogLevels, SkipInputs)

SpecInit == Init /\ [][NextInit]_vars

-----------------------------------------------------------------------------
(* What the specification says each builder operation attaches *)

FieldTable(op) ==
    CASE op = "ApplyRequest" ->
           <<[key |-> "Method", field |-> "method"],
             [key |-> "RequestURI", field |-> "req_uri"],
             [key |-> "ReqHeader", field |-> "req_header"],
             [key |-> "ReqBody", field |-> "req_body"],
             [key |-> "Time", field |-> "time"]>>
      [] op = "ApplyResponse" ->
           <<[key |-> "RespHeader", field |-> "resp_header"],
             [key |-> "RespBody", field |-> "resp_body"],
             [key |-> "StatusCode", field |-> "status_code"]>>
      [] op = "ApplyContext" ->
           <<[key |-> "Tag", field |-> "tag"],
             [key |-> "DocumentId", field |-> "document_id"],
             [key |-> "ReqId", field |-> "req_id"],
             [key |-> "XReqId", field |-> "x_req_id"]>>
      [] OTHER -> <<>>

IsIntKey(key) == key = "StatusCode"

Present(v, key) ==
    IF IsIntKey(key) THEN v.t = "int" ELSE v.t = "string" /\ v.s # ""

RECURSIVE Attached(_, _)
Attached(table, ctx) ==
    IF table = <<>> THEN <<>>
    ELSE LET e == Head(table)
             v == ctx[e.key]
         IN  (IF Present(v, e.key)
              THEN <<[k |-> e.field, t |-> v.t, s |-> v.s, n |-> v.n]>>
              ELSE <<>>) \o Attached(Tail(table), ctx)

StepFields(o) ==
    CASE o.op = "Err" ->
           IF o.err.nil THEN {}
           ELSE {[k |-> "error", t |-> "string", s |-> o.err.msg, n |-> 0]}
      [] o.op \in ApplyOps -> Range(Attached(FieldTable(o.op), o.ctx))
      [] OTHER -> {}

RECURSIVE AttachedAlong(_)
AttachedAlong(i) ==
    IF made[i].op \in BuilderOps
    THEN StepFields(made[i]) \cup AttachedAlong(made[i].l)
    ELSE {}

FieldSet(i) == Range(heap[i].context)

UniqueKeys(fields) ==
    \A i, j \in DOMAIN fields : fields[i].k = fields[j].k => i = j

\* the severity fields of a written line, whichever writer wrote it
SeverityIdx(line) ==
    {i \in DOMAIN line.fields :
        line.fields[i].k = (IF line.w = "console" THEN "severity:" ELSE "severity")}

SeverityIs(line, num) ==
    /\ Cardinality(SeverityIdx(line)) = 1
    /\ \A i \in SeverityIdx(line) :
          IF line.w = "console" THEN line.fields[i].s = ToString(num)
          ELSE line.fields[i].t = "int" /\ line.fields[i].n = num

LevelIs(line, json, console) ==
    \E i \in DOMAIN line.fields :
        /\ line.fields[i].k = "level"
        /\ line.fields[i].s = (IF line.w = "console" THEN console ELSE json)

MessageIs(line, msg) ==
    \E i \in DOMAIN line.fields :
        line.fields[i].k = "message" /\ line.fields[i].s = msg

\* the zerolog level an operation logs at
LevelOf(op) ==
    CASE op = "Debugf" -> 0
      [] op = "Infof" -> 1
      [] op = "Warnf" -> 2
      [] op = "Errorf" -> 3
      [] OTHER -> 4

-----------------------------------------------------------------------------
(* Claims *)

\* C1: Err, ApplyRequest, ApplyResponse and ApplyContext return a *Logger that
\* did not exist before the call and leave every existing Logger exactly as it
\* was (its Field Set included).
C1_ParentNotMutated ==
    [][/\ call'.ret \notin DOMAIN heap
       /\ call'.ret \in DOMAIN heap'
       /\ \A i \in DOMAIN heap : i \in DOMAIN heap' /\ heap'[i] = heap[i]]_vars

C1_Witness ==
    /\ call.op \in BuilderOps
    /\ Len(heap) = 3
    /\ heap[call.l].context # <<>>
    /\ Len(heap[call.ret].context) > Len(heap[call.l].context)

\* C2: the Logger returned by ApplyRequest / ApplyResponse / ApplyContext
\* carries the parent's fields followed by exactly the fields of the
\* operation's table whose context key is present (a non-empty string, or an
\* int for StatusCode), each with the context value unchanged, and nothing else.
C2_ConditionalInclusion ==
    call.op \in ApplyOps =>
        heap[call.ret].context =
            heap[call.l].context \o Attached(FieldTable(call.op), call.ctx)

C2_Witness ==
    /\ call.op = "ApplyRequest"
    /\ call.ctx["Method"] = S("GET")
    /\ call.ctx["RequestURI"] = S("/x")
    /\ call.ctx["ReqHeader"] = S("")
    /\ call.ctx["StatusCode"] = I(200)
    /\ heap[call.l].context # <<>>
    /\ \E i \in DOMAIN heap[call.ret].context : heap[call.ret].context[i].k = "req_uri"

\* C3: every Logger's Field Set contains every field attached by every step
\* of the chain that built it, and ApplyRequest then ApplyResponse on a root
\* Logger gives exactly the union of the two operations' fields.
C3_Accumulation ==
    \A i \in DOMAIN heap :
        /\ AttachedAlong(i) \subseteq FieldSet(i)
        /\ (/\ made[i].op = "ApplyResponse"
            /\ made[made[i].l].op = "ApplyRequest"
            /\ made[made[made[i].l].l].op \in InitOps)
           => FieldSet(i) = StepFields(made[made[i].l]) \cup StepFields(made[i])

C3_Witness ==
    \E i \in DOMAIN heap :
        /\ made[i].op = "ApplyResponse"
        /\ made[made[i].l].op = "ApplyRequest"
        /\ made[made[made[i].l].l].op \in InitOps
        /\ Cardinality(StepFields(made[made[i].l])) = 2
        /\ Cardinality(StepFields(made[i])) = 2
        /\ Len(heap[i].context) = 4

\* C4: Initialization resolves the skip depth to the given value when it is
\* provided and >= 0 and to 3 when it is negative or nil; that depth is what
\* the writer factory receives and what the caller hook is built with.
C4_SkipFrameResolution ==
    call.op \in InitOps =>
        LET want == IF ~call.skip.nil /\ call.skip.v >= 0 THEN call.skip.v ELSE 3
        IN  /\ call.sfc = want
            /\ heap[call.ret].skip = CallerSkipFrameCount + want

C4_Witness ==
    /\ call.op = "NewWithCustomLogger"
    /\ call.skip = SkipOf(0)
    /\ call.sfc = 0

\* C5: Initialization sets the process-wide level to debug, info, warn or
\* error when the input is that named level and to info for any other input.
C5_LevelSelection ==
    /\ gLevel \in {DebugLevel, InfoLevel, WarnLevel, ErrorLevel}
    /\ call.op \in InitOps =>
          gLevel = (CASE call.level = -4 -> 0
                      [] call.level = 0 -> 1
                      [] call.level = 4 -> 2
                      [] call.level = 8 -> 3
                      [] OTHER -> 1)

C5_Witness ==
    /\ call.op \in InitOps
    /\ call.level = 12
    /\ gLevel = InfoLevel

\* C6: Fatalf writes exactly one record, at fatal level with severity=800,
\* whatever the level in force, the process then has exit status 1, and no
\* operation runs once the process has exited.
C6_FatalfTerminates ==
    /\ [](/\ call.op = "Fatalf" =>
                /\ exit = [exited |-> TRUE, status |-> 1]
                /\ Len(stdout) = 1
                /\ LevelIs(stdout[1], "fatal", "| FATAL |")
                /\ SeverityIs(stdout[1], 800)
          /\ exit.exited => call.op = "Fatalf")
    /\ [][~exit.exited]_vars

C6_Witness ==
    /\ call.op = "Fatalf"
    /\ gLevel = ErrorLevel
    /\ exit.exited
    /\ Len(stdout) = 1
    /\ heap[call.l].context # <<>>

\* C7: getValStr reports present exactly for a non-empty string (returning
\* it) and getValInt exactly for an int, zero included (returning it); a
\* missing key, an empty string or another type gives not-present with the
\* zero value.
C7_FieldExtractor ==
    \A i \in DOMAIN lookups :
        LET e == lookups[i]
            v == call.ctx[e.key]
        IN  IF IsIntKey(e.key)
            THEN /\ e.ok <=> v.t = "int"
                 /\ e.n = (IF v.t = "int" THEN v.n ELSE 0)
            ELSE /\ e.ok <=> (v.t = "string" /\ v.s # "")
                 /\ e.s = (IF v.t = "string" THEN v.s ELSE "")

C7_Witness ==
    /\ call.op = "ApplyResponse"
    /\ \E i \in DOMAIN lookups :
          lookups[i].key = "StatusCode" /\ lookups[i].ok /\ lookups[i].n = 0
    /\ \E i \in DOMAIN lookups :
          lookups[i].key = "RespBody" /\ ~lookups[i].ok /\ call.ctx["RespBody"] = S("")

\* C8: a Warnf record carries severity=400 once, an Errorf record
\* severity=500 once, a Debugf or Infof record no severity, and no emission
\* changes any Logger.
C8_SeverityPerEmission ==
    /\ [](call.op \in EmitOps =>
             \A i \in DOMAIN stdout :
                 CASE call.op = "Warnf" -> SeverityIs(stdout[i], 400)
                   [] call.op = "Errorf" -> SeverityIs(stdout[i], 500)
                   [] OTHER -> SeverityIdx(stdout[i]) = {})
    /\ [][call'.op \in EmitOps => heap' = heap]_vars

C8_Witness ==
    /\ call.op = "Warnf"
    /\ Len(stdout) = 1
    /\ stdout[1].w = "console"
    /\ heap[call.l].context # <<>>

\* C9: every Logger's Field Set and every written record carries each field
\* name at most once.
C9_KeyUniqueness ==
    /\ \A i \in DOMAIN heap : UniqueKeys(heap[i].context)
    /\ \A i \in DOMAIN stdout : UniqueKeys(stdout[i].fields)

\* C10: an emission through any Logger writes one record exactly when its
\* level is at or above the process-wide level, which every Initialization
\* call sets from its level input and no other call changes.
C10_GlobalThreshold ==
    /\ [](call.op \in EmitOps =>
             /\ Len(stdout) = (IF LevelOf(call.op) >= gLevel THEN 1 ELSE 0)
             /\ \A i \in DOMAIN stdout :
                   MessageIs(stdout[i], Sprintf(call.m.format, call.m.args)))
    /\ [][IF call'.op \in InitOps
           THEN gLevel' = (CASE call'.level = -4 -> 0
                             [] call'.level = 0 -> 1
                             [] call'.level = 4 -> 2
                             [] call'.level = 8 -> 3
                             [] OTHER -> 1)
           ELSE gLevel' = gLevel]_vars

C10_Witness ==
    /\ call.op = "Debugf"
    /\ call.l = 1
    /\ Len(heap) = 2
    /\ made[2].op \in InitOps
    /\ gLevel = WarnLevel
    /\ stdout = <<>>

=============================================================================
